---- MODULE Spec2Model ----
(***************************************************************************)
(* Model of the recursive research engine of deep-research.                *)
(*                                                                         *)
(* The repository holds two implementations of deepResearch:               *)
(*   "current"  : src/src/deep-research.ts (imported by run.ts);           *)
(*                ConcurrencyLimit = 1, a 1000 ms sleep before every       *)
(*                search, the recursive call is awaited inside the try.    *)
(*   "original" : src/unnamed/part_001; ConcurrencyLimit = 2, no sleep,    *)
(*                the recursive call is returned without await.            *)
(* The variable impl selects the implementation a behaviour runs.          *)
(*                                                                         *)
(* Spec and FairSpec are the research engine.  trimPrompt and              *)
(* writeFinalReport are functions of their arguments alone; TrimSpec and   *)
(* ReportSpec run one call of each on arguments drawn from bounded sets.   *)
(*                                                                         *)
(* A node of the recursion tree is a path: <<>> is the root research       *)
(* invocation, Append(p, i) is the branch executor of candidate query i of *)
(* invocation p, and also the research invocation that branch recurses     *)
(* into (a branch issues at most one).                                     *)
(***************************************************************************)
EXTENDS Integers, Sequences, FiniteSets, TLC

VARIABLES
  impl,         \* which implementation runs: "current" or "original"
  inv,          \* research invocations (deepResearch calls), by path
  br,           \* branch executors (processSingleSerpQuery calls), by path
  trim,         \* a call of trimPrompt: its arguments, its recursion, its result
  report        \* a call of writeFinalReport: its arguments and its result

vars == <<impl, inv, br, trim, report>>

---------------------------------------------------------------------------
\* Bounds of the model.

\* largest breadth of the root call
MaxBreadth == 2
\* largest depth of the root call
MaxDepth == 2
\* largest number of branch executors in one recursion tree
MaxBranches == 3

---------------------------------------------------------------------------
\* Program constants.

ConcurrencyLimit == 1
OriginalConcurrencyLimit == 2
RATE_LIMIT_MS == 1000

\* granularity of the model's clock
TickMs == RATE_LIMIT_MS

Impls == {"current", "original"}

\* pLimit(ConcurrencyLimit) of the running implementation
Limit == IF impl = "current" THEN ConcurrencyLimit ELSE OriginalConcurrencyLimit

---------------------------------------------------------------------------
\* Responses of the external collaborators.

Item(u) == [url |-> u]

\* search provider: result items, an item may carry no URL ("")
SearchResponses == { <<Item("u1")>>, <<Item(""), Item("u2")>> }

\* result analyzer: learnings and follow-up questions
AnalyzerResponses ==
  { [learnings |-> <<"a">>, followUpQuestions |-> <<>>],
    [learnings |-> <<"b">>, followUpQuestions |-> <<"f">>] }

\* An error thrown by an external call: why it was thrown ("deadline": the call
\* exceeded its timeout; "other": any other failure) and its message, as words.
\* The message of a deadline error is the library's: AbortSignal.timeout
\* rejects with "The operation was aborted due to timeout"; another library
\* may say "Timeout".
Errors ==
  { [cause |-> "deadline",
     message |-> <<"The", "operation", "was", "aborted", "due", "to", "timeout">>],
    [cause |-> "deadline", message |-> <<"Request", "Timeout">>],
    [cause |-> "other", message |-> <<"Bad", "Request">>] }

\* firecrawl.search has the provider's deadline (timeout: 15000): its deadline
\* error is the provider's
SearchErrors ==
  { e \in Errors : e.cause = "deadline" => e.message = <<"Request", "Timeout">> }

\* generateObject of processSerpResult has AbortSignal.timeout(60000): its
\* deadline error is the signal's
AnalyzerErrors ==
  { e \in Errors : e.cause = "deadline" => e.message # <<"Request", "Timeout">> }

\* generateSerpQueries has no deadline of its own
PlannerErrors == { e \in Errors : e.cause = "other" }

NoError == [cause |-> "none", message |-> <<>>]

\* query planner: k candidate queries, in order
PlannerResponse(k) == [i \in 1..k |-> [query |-> ToString(i), researchGoal |-> ToString(i)]]

---------------------------------------------------------------------------
\* Pure helpers.

EmptyResult == [learnings |-> <<>>, visitedUrls |-> <<>>]

\* trimPrompt / writeFinalReport is not being called
NoCall == [status |-> "none"]

Min(a, b) == IF a <= b THEN a ELSE b

\* the element of a one-element set: The({ F(v) : v \in {e} }) is F(e) with e
\* evaluated once
The(S) == CHOOSE v \in S : TRUE

Parent(x) == SubSeq(x, 1, Len(x) - 1)
Index(x) == x[Len(x)]

\* lodash compact(result.data.map(item => item.url)): falsy URLs are dropped
RECURSIVE extractUrlsFromResult(_)
extractUrlsFromResult(result) ==
  IF result = <<>> THEN <<>>
  ELSE IF Head(result).url = ""
       THEN extractUrlsFromResult(Tail(result))
       ELSE <<Head(result).url>> \o extractUrlsFromResult(Tail(result))

\* Math.ceil(breadth / 2)
NewBreadthFloor(breadth) == breadth \div 2
NewBreadth(breadth) == (breadth + 1) \div 2

\* depth - 1
NewDepthSame(depth) == depth
NewDepth(depth) == depth - 1

\* if (newDepth > 0)
ShouldRecurseOnFollowUps(newDepth, followUpQuestions) ==
  newDepth > 0 /\ followUpQuestions # <<>>
ShouldRecurseAtZero(newDepth, followUpQuestions) == newDepth >= 0
ShouldRecurseIfTruthy(newDepth, followUpQuestions) == newDepth # 0
ShouldRecurse(newDepth, followUpQuestions) == newDepth > 0

\* [...learnings, ...newLearnings.learnings] and [...visitedUrls, ...newUrls]
AccumulateDropInput(old, new) == new
Accumulate(old, new) == old \o new

\* What the parameter array holds after `[...input, ...more]` has built `all`:
\* the spread copies, the array passed in keeps its elements.
InputAfterPush(input, all) == all
InputAfterSpread(input, all) == input

\* String.prototype.includes, on a message held as words (case-sensitive)
Includes(message, word) == \E i \in 1..Len(message) : message[i] = word

\* handleSerpQueryError: which of the two console.error lines is written
handleSerpQueryError(error) ==
  IF error.message # <<>> /\ Includes(error.message, "Timeout")
  THEN "timeout"
  ELSE "error"

\* generateNextResearchQuery: the goal line followed by the follow-up lines
generateNextResearchQuery(researchGoal, followUpQuestions) ==
  <<researchGoal>> \o followUpQuestions

\* queryResult.object.queries.slice(0, numQueries)
SliceNothing(queries, numQueries) == queries
Slice(queries, numQueries) == SubSeq(queries, 1, Min(Len(queries), numQueries))

\* [...new Set(xs)]: first occurrences, in insertion order
DedupNone(xs) == xs
RECURSIVE Dedup(_)
Dedup(xs) ==
  IF xs = <<>> THEN <<>>
  ELSE LET front == Dedup(SubSeq(xs, 1, Len(xs) - 1))
           last == xs[Len(xs)]
       IN IF \E i \in 1..Len(front) : front[i] = last
          THEN front
          ELSE Append(front, last)

\* results.flatMap(r => r.learnings), results.flatMap(r => r.visitedUrls)
RECURSIVE FlatLearnings(_, _)
FlatLearnings(results, n) ==
  IF n = 0 THEN <<>> ELSE FlatLearnings(results, n - 1) \o results[n].learnings

RECURSIVE FlatUrls(_, _)
FlatUrls(results, n) ==
  IF n = 0 THEN <<>> ELSE FlatUrls(results, n - 1) \o results[n].visitedUrls

\* Promise.all: the value of task i is stored in slot i
StoreInCompletionOrder(results, i, r) ==
  ((Cardinality(DOMAIN results) + 1) :> r) @@ results
StoreResult(results, i, r) == (i :> r) @@ results

\* p-limit: a queued task starts when fewer than `concurrency` are active
CanStartAlways(activeCount) == TRUE
CanStart(activeCount) == activeCount < Limit

---------------------------------------------------------------------------
\* State helpers.

Branches(b, p) == { x \in DOMAIN b : Len(x) = Len(p) + 1 /\ Parent(x) = p }

ActivePcs == {"sleeping", "searching", "analyzing", "recursing"}

Active(b, p) == { x \in Branches(b, p) : b[x].pc \in ActivePcs }
Queued(b, p) == { x \in Branches(b, p) : b[x].pc = "queued" }

\* p-limit's queue is first in, first out: tasks were enqueued in query order
LastQueued(b, p) ==
  CHOOSE x \in Queued(b, p) : \A y \in Queued(b, p) : Index(x) >= Index(y)
FirstQueued(b, p) ==
  CHOOSE x \in Queued(b, p) : \A y \in Queued(b, p) : Index(x) <= Index(y)

\* firecrawl.search is issued by branch x.  delay records how long x slept
\* before, gap a lower bound of the time since the previous search request
\* (the part of x's sleep that followed it); every branch still asleep notes
\* how far its own sleep had got.
IssueSearch(b, x) ==
  [y \in DOMAIN b |->
     IF y = x
     THEN [b[y] EXCEPT !.pc = "searching", !.steps = Append(@, "search"),
                       !.delay = b[x].slept,
                       !.gap = b[x].slept - b[x].sleptAtSearch,
                       !.slept = 0, !.sleptAtSearch = 0]
     ELSE IF b[y].pc = "sleeping"
          THEN [b[y] EXCEPT !.sleptAtSearch = b[y].slept]
          ELSE b[y]]

\* p-limit starts queued tasks in FIFO order while a slot is free.  A started
\* task runs to its first await: the rate-limit sleep ("current") or the search
\* request itself ("original").
RECURSIVE Fill(_, _)
Fill(b, p) ==
  IF Queued(b, p) = {} \/ ~CanStart(Cardinality(Active(b, p)))
  THEN b
  ELSE LET x == FirstQueued(b, p) IN
       IF impl = "current"
       THEN The({ Fill(b1, p) : b1 \in { [b EXCEPT ![x].pc = "sleeping"] } })
       ELSE The({ Fill(b1, p) : b1 \in { IssueSearch(b, x) } })

NewInvocation(query, breadth, depth, learnings, visitedUrls) ==
  [ status      |-> "planning",
    query       |-> query,
    breadth     |-> breadth,
    depth       |-> depth,
    learnings   |-> learnings,
    visitedUrls |-> visitedUrls,
    planned     |-> 0,    \* queries the planner returned, until a branch settles
    n           |-> 0,
    results     |-> <<>>,
    result      |-> EmptyResult,
    error       |-> NoError ]

NewBranch(serpQuery, breadth, depth, learnings, visitedUrls) ==
  [ pc            |-> "queued",
    serpQuery     |-> serpQuery,
    breadth       |-> breadth,
    depth         |-> depth,
    learnings     |-> learnings,
    visitedUrls   |-> visitedUrls,
    slept         |-> 0,
    sleptAtSearch |-> 0,
    delay         |-> -1,
    gap           |-> -1,
    newUrls       |-> <<>>,
    outcome       |-> "none",
    recursions    |-> 0,
    result        |-> EmptyResult,
    steps         |-> <<>>,
    cause         |-> "none",
    report        |-> "none" ]

\* The learnings and visitedUrls parameters of processSingleSerpQuery, as the
\* branch reads them at `[...learnings, ...]`, `[...visitedUrls, ...]` after its
\* two awaits: the arrays the closure of deepResearch captured.
BranchInputWithSiblings(B, x) ==
  LET done == { y \in Branches(B, Parent(x)) : y # x /\ B[y].pc = "done" }
      order == [i \in 1..Cardinality(Branches(B, Parent(x))) |->
                  IF Append(Parent(x), i) \in done
                  THEN B[Append(Parent(x), i)].result ELSE EmptyResult]
  IN [ learnings   |-> B[x].learnings \o FlatLearnings(order, Len(order)),
       visitedUrls |-> B[x].visitedUrls \o FlatUrls(order, Len(order)) ]
BranchInput(B, x) ==
  [ learnings |-> B[x].learnings, visitedUrls |-> B[x].visitedUrls ]

\* return { learnings: [...new Set(...)], visitedUrls: [...new Set(...)] }
AggregateLastResult(results, n) ==
  IF n = 0 THEN EmptyResult
  ELSE [ learnings   |-> Dedup(results[n].learnings),
         visitedUrls |-> Dedup(results[n].visitedUrls) ]
AggregateResults(results, n) ==
  [ learnings   |-> Dedup(FlatLearnings(results, n)),
    visitedUrls |-> Dedup(FlatUrls(results, n)) ]

\* catch (error) { ...; return { learnings: [], visitedUrls: [] }; }
CatchReturnsInput(learnings, visitedUrls) ==
  [learnings |-> learnings, visitedUrls |-> visitedUrls]
CatchResult(learnings, visitedUrls) == EmptyResult

\* Whether the try block of the branch executor sees a rejection of the
\* recursive call: "current" writes `return await deepResearch(..)`, "original"
\* writes `return deepResearch(..)`, so its promise adopts the rejection and the
\* catch never runs.
CatchesRecursionFailure == impl = "current"

\* What follows, without any external event in between, once a promise
\* settles:
\*   Settle     the promise of branch x fulfils with r (ok) or rejects; Promise.all
\*              stores the value in x's slot and p-limit starts the next task;
\*   Return     Promise.all of invocation p settles when every branch has fulfilled
\*              or one has rejected, and deepResearch returns or rejects;
\*   Resume     the branch that awaits invocation p continues with its outcome.
RECURSIVE Settle(_, _, _, _, _, _)
RECURSIVE Return(_, _, _)
RECURSIVE Resume(_, _, _)

Settle(I, B, x, outcome, r, ok) ==
  LET p == Parent(x)
      B1 == [B EXCEPT ![x].pc = IF ok THEN "done" ELSE "rejected",
                      ![x].outcome = outcome,
                      ![x].result = r,
                      ![x].newUrls = <<>>]
      I1 == IF ok
            THEN [I EXCEPT ![p].results = StoreResult(@, Index(x), r), ![p].planned = 0]
            ELSE [I EXCEPT ![p].planned = 0]
  IN The({ Return(i, b, p) : i \in {I1}, b \in {Fill(B1, p)} })

\* catch (error) { handleSerpQueryError(error, ..); return {[], []}; }
CatchBlockRetrying(I, B, x, outcome, error) ==
  IF outcome = "searchFailed" /\ Len(B[x].steps) < 3
  THEN [inv |-> I, br |-> IssueSearch(B, x)]
  ELSE Settle(I, [B EXCEPT ![x].cause = error.cause,
                           ![x].report = handleSerpQueryError(error)],
              x, outcome, CatchResult(B[x].learnings, B[x].visitedUrls), TRUE)
CatchBlock(I, B, x, outcome, error) ==
  Settle(I, [B EXCEPT ![x].cause = error.cause,
                      ![x].report = handleSerpQueryError(error)],
         x, outcome, CatchResult(B[x].learnings, B[x].visitedUrls), TRUE)

Return(I, B, p) ==
  IF I[p].status # "running"
  THEN [inv |-> I, br |-> B]
  ELSE IF \E x \in Branches(B, p) : B[x].pc = "rejected"
  THEN LET x == CHOOSE x \in Branches(B, p) : B[x].pc = "rejected" IN
       The({ Resume(i, B, p) : i \in { [I EXCEPT ![p].status = "branchRejected",
                                                 ![p].error = I[x].error] } })
  ELSE IF \A x \in Branches(B, p) : B[x].pc = "done"
  THEN The({ Resume(i, B, p) :
               i \in { [I EXCEPT ![p].status = "done",
                                 ![p].result = AggregateResults(I[p].results, I[p].n)] } })
  ELSE [inv |-> I, br |-> B]

Resume(I, B, p) ==
  IF p = <<>>
  THEN [inv |-> I, br |-> B]
  ELSE IF I[p].status = "done"
  THEN Settle(I, B, p, "recursed", I[p].result, TRUE)
  ELSE IF CatchesRecursionFailure
  THEN CatchBlock(I, B, p, "recursionFailed", I[p].error)
  ELSE Settle(I, B, p, "recursionFailed",
              CatchResult(B[p].learnings, B[p].visitedUrls), FALSE)

---------------------------------------------------------------------------
\* Initial state: the root call deepResearch({query, breadth, depth}) of run.ts
\* has issued its query-planning request.

Init ==
  /\ impl \in Impls
  /\ \E breadth \in 1..MaxBreadth, depth \in 0..MaxDepth :
       inv = (<<>> :> NewInvocation(<<"topic">>, breadth, depth, <<>>, <<>>))
  /\ br = [x \in {} |-> EmptyResult]
  /\ trim = NoCall
  /\ report = NoCall

---------------------------------------------------------------------------
\* Actions.  Each is one external event (a response, a failure, a timer)
\* together with everything the program does before it next waits.  The state
\* that results is computed once, as the only element of a set.

\* For every event, After..(I, B, ..) is the set of states [inv, br] the event
\* leads to from invocations I and branches B: one state, or none when the
\* event cannot happen there.

\* generateSerpQueries resolves with k queries; deepResearch keeps the first
\* `breadth`, hands one task per query to p-limit, which starts the first ones.
AfterPlannerReturns(I, B, p, k) ==
  LET serpQueries == Slice(PlannerResponse(k), I[p].breadth)
      n == Len(serpQueries)
      fresh == [x \in { Append(p, i) : i \in 1..n } |->
                  NewBranch(serpQueries[Index(x)], I[p].breadth, I[p].depth,
                            I[p].learnings, I[p].visitedUrls)]
  IN IF I[p].status = "planning" /\ Cardinality(DOMAIN B) + n <= MaxBranches
     THEN { Return([I EXCEPT ![p].status = "running", ![p].n = n, ![p].planned = k],
                   Fill(fresh @@ B, p), p) }
     ELSE {}

PlannerReturns(p, k) ==
  /\ \E next \in AfterPlannerReturns(inv, br, p, k) :
       /\ inv' = next.inv
       /\ br' = next.br
  /\ UNCHANGED <<impl, trim, report>>

\* generateSerpQueries throws: deepResearch rejects before any branch exists.
AfterPlannerFails(I, B, p, error) ==
  IF I[p].status = "planning"
  THEN { Resume([I EXCEPT ![p].status = "plannerFailed", ![p].error = error], B, p) }
  ELSE {}

PlannerFails(p, error) ==
  /\ \E next \in AfterPlannerFails(inv, br, p, error) :
       /\ inv' = next.inv
       /\ br' = next.br
  /\ UNCHANGED <<impl, trim, report>>

\* Time passes: the timers of the sleeping branches advance.
AfterTick(I, B) ==
  IF \E x \in DOMAIN B : B[x].pc = "sleeping" /\ B[x].slept < RATE_LIMIT_MS
  THEN { [inv |-> I,
          br |-> [x \in DOMAIN B |->
                    IF B[x].pc = "sleeping"
                    THEN [B[x] EXCEPT !.slept = Min(@ + TickMs, RATE_LIMIT_MS)]
                    ELSE B[x]]] }
  ELSE {}

Tick ==
  /\ \E next \in AfterTick(inv, br) : br' = next.br
  /\ UNCHANGED <<impl, inv, trim, report>>

\* fetchSerpResults: sleep(RATE_LIMIT_MS) is over, firecrawl.search is issued.
AfterSleepDone(I, B, x) ==
  IF B[x].pc = "sleeping" /\ B[x].slept >= RATE_LIMIT_MS
  THEN { [inv |-> I, br |-> IssueSearch([B EXCEPT ![x].steps = Append(@, "delay")], x)] }
  ELSE {}

SleepDone(x) ==
  /\ \E next \in AfterSleepDone(inv, br, x) : br' = next.br
  /\ UNCHANGED <<impl, inv, trim, report>>

\* firecrawl.search resolves: the URLs are extracted, the analyzer is called.
AfterSearchReturns(I, B, x, result) ==
  IF B[x].pc = "searching"
  THEN { [inv |-> I,
          br |-> [B EXCEPT ![x].pc = "analyzing",
                           ![x].steps = Append(@, "analyze"),
                           ![x].newUrls = extractUrlsFromResult(result)]] }
  ELSE {}

SearchReturns(x, result) ==
  /\ \E next \in AfterSearchReturns(inv, br, x, result) : br' = next.br
  /\ UNCHANGED <<impl, inv, trim, report>>

\* firecrawl.search throws or times out: caught, the branch returns empty.
AfterSearchFails(I, B, x, error) ==
  IF B[x].pc = "searching"
  THEN { CatchBlock(I, B, x, "searchFailed", error) }
  ELSE {}

SearchFails(x, error) ==
  /\ \E next \in AfterSearchFails(inv, br, x, error) :
       /\ inv' = next.inv
       /\ br' = next.br
  /\ UNCHANGED <<impl, trim, report>>

\* processSerpResult resolves: accumulate, then recurse if depth allows.
AfterAnalyzerReturns(I, B, x, newLearnings) ==
  LET newBreadth == NewBreadth(B[x].breadth)
      newDepth == NewDepth(B[x].depth)
      allLearnings == Accumulate(BranchInput(B, x).learnings, newLearnings.learnings)
      allUrls == Accumulate(BranchInput(B, x).visitedUrls, B[x].newUrls)
      B1 == [B EXCEPT ![x].learnings = InputAfterSpread(@, allLearnings),
                      ![x].visitedUrls = InputAfterSpread(@, allUrls)]
  IN IF B[x].pc # "analyzing" THEN {}
     ELSE IF ShouldRecurse(newDepth, newLearnings.followUpQuestions)
     THEN { [inv |-> (x :> NewInvocation(
                              generateNextResearchQuery(B[x].serpQuery.researchGoal,
                                                        newLearnings.followUpQuestions),
                              newBreadth, newDepth, allLearnings, allUrls)) @@ I,
             br |-> [B1 EXCEPT ![x].pc = "recursing", ![x].outcome = "analysed",
                               ![x].steps = Append(@, "recurse"),
                               ![x].recursions = @ + 1, ![x].newUrls = <<>>]] }
     ELSE { Settle(I, B1, x, "terminal",
                   [learnings |-> allLearnings, visitedUrls |-> allUrls], TRUE) }

AnalyzerReturns(x, newLearnings) ==
  /\ \E next \in AfterAnalyzerReturns(inv, br, x, newLearnings) :
       /\ inv' = next.inv
       /\ br' = next.br
  /\ UNCHANGED <<impl, trim, report>>

\* processSerpResult throws or times out: caught, the branch returns empty.
AfterAnalyzerFails(I, B, x, error) ==
  IF B[x].pc = "analyzing"
  THEN { CatchBlock(I, B, x, "analysisFailed", error) }
  ELSE {}

AnalyzerFails(x, error) ==
  /\ \E next \in AfterAnalyzerFails(inv, br, x, error) :
       /\ inv' = next.inv
       /\ br' = next.br
  /\ UNCHANGED <<impl, trim, report>>

Next ==
  \/ \E p \in DOMAIN inv : \E k \in 0..(inv[p].breadth + 1) : PlannerReturns(p, k)
  \/ \E p \in DOMAIN inv : \E error \in PlannerErrors : PlannerFails(p, error)
  \/ Tick
  \/ \E x \in DOMAIN br : SleepDone(x)
  \/ \E x \in DOMAIN br : \E result \in SearchResponses : SearchReturns(x, result)
  \/ \E x \in DOMAIN br : \E error \in SearchErrors : SearchFails(x, error)
  \/ \E x \in DOMAIN br : \E newLearnings \in AnalyzerResponses :
       AnalyzerReturns(x, newLearnings)
  \/ \E x \in DOMAIN br : \E error \in AnalyzerErrors : AnalyzerFails(x, error)

Spec == Init /\ [][Next]_vars

\* Every external call eventually returns or fails, every timer eventually
\* fires and the event loop runs every continuation that is ready.
FairSpec == Spec /\ WF_vars(Next)

---------------------------------------------------------------------------
\* The text trimmer, trimPrompt(prompt, contextSize).
\*
\* A text is a sequence of runs: Run(c, n) is n times the character c, and two
\* neighbouring runs differ in their character.  "a" is a letter, "x" a
\* character the tokenizer cannot merge with its neighbours, "\n" a line break,
\* the separator the splitter looks for.

\* largest number of runs of an input text
MaxRuns == 3

MinChunkSize == 140

Separator == "\n"
Chars == {"a", "x", Separator}
RunLengths == {1, 139, 140, 300}
Budgets == {0, 1, 75}

Run(c, n) == [c |-> c, n |-> n]

Texts ==
  UNION { { t \in [1..r -> { Run(c, n) : c \in Chars, n \in RunLengths }] :
              \A i \in 1..(r - 1) : t[i].c # t[i + 1].c } : r \in 0..MaxRuns }

\* prompt.length
RECURSIVE TextLen(_)
TextLen(text) ==
  IF text = <<>> THEN 0 ELSE Head(text).n + TextLen(Tail(text))

\* encoder.encode(prompt).length: letters and line breaks merge four to a
\* token, an "x" is a token of its own
RECURSIVE TokenCount(_)
TokenCount(text) ==
  IF text = <<>> THEN 0
  ELSE (IF Head(text).c = "x" THEN Head(text).n ELSE (Head(text).n + 3) \div 4)
       + TokenCount(Tail(text))

\* prompt.slice(0, k), k >= 0
RECURSIVE SliceText(_, _)
SliceText(text, k) ==
  IF text = <<>> \/ k <= 0 THEN <<>>
  ELSE IF Head(text).n <= k
       THEN <<Head(text)>> \o SliceText(Tail(text), k - Head(text).n)
       ELSE <<Run(Head(text).c, k)>>

Max(S) == CHOOSE v \in S : \A w \in S : w <= v

\* splitter.splitText(prompt)[0] ?? '' as the specification describes the
\* splitter: the text is cut at separators, pieces are joined while they fit
\* chunkSize, a first piece longer than chunkSize is cut at chunkSize
\* characters; a text without a piece has no chunk.
FirstChunk(text, chunkSize) ==
  LET body == IF text # <<>> /\ Head(text).c = Separator THEN Tail(text) ELSE text
      ends == { j \in 1..Len(body) :
                  /\ body[j].c # Separator
                  /\ j = Len(body) \/ body[j + 1].c = Separator
                  /\ TextLen(SubSeq(body, 1, j)) <= chunkSize }
  IN IF body = <<>> THEN <<>>
     ELSE IF ends = {} THEN SliceText(body, chunkSize)
     ELSE SubSeq(body, 1, Max(ends))

\* What the splitter may return as its first chunk: the chunk above, or the
\* whole text ("the splitter made no progress").
FirstChunks(text, chunkSize) == { FirstChunk(text, chunkSize), text }

\* if (length <= contextSize)
FitsBelow(length, contextSize) == length < contextSize
FitsOneMore(length, contextSize) == length <= contextSize + 1
Fits(length, contextSize) == length <= contextSize

\* chunkSize = prompt.length - overflowTokens * 3
ChunkSize(prompt, contextSize) ==
  TextLen(prompt) - (TokenCount(prompt) - contextSize) * 3

\* prompt.slice(0, MinChunkSize)
FloorCutOneShort(prompt) == SliceText(prompt, MinChunkSize - 1)
FloorCutLong(prompt) == SliceText(prompt, 300)
FloorCutNothing(prompt) == prompt
FloorCut(prompt) == SliceText(prompt, MinChunkSize)

\* prompt.slice(0, chunkSize), the hard cut
HardCutNothing(prompt, chunkSize) == prompt
HardCut(prompt, chunkSize) == SliceText(prompt, chunkSize)

\* trimPrompt(text, contextSize) has been called
TrimCall(text, contextSize) ==
  [ status      |-> "running",
    text        |-> text,
    contextSize |-> contextSize,
    prompt      |-> text,
    recursions  |-> {},
    encoded     |-> FALSE,
    via         |-> "none",
    result      |-> <<>> ]

TrimInit ==
  /\ impl = "current"
  /\ inv = [x \in {} |-> EmptyResult]
  /\ br = [x \in {} |-> EmptyResult]
  /\ report = NoCall
  /\ \E text \in Texts, contextSize \in Budgets : trim = TrimCall(text, contextSize)

TrimReturn(via, result, encoded) ==
  /\ trim' = [trim EXCEPT !.status = "returned", !.via = via, !.result = result,
                          !.encoded = @ \/ encoded]
  /\ UNCHANGED <<impl, inv, br, report>>

\* if (!prompt) return ''
TrimReturnsEmpty ==
  /\ trim.status = "running"
  /\ trim.prompt = <<>>
  /\ TrimReturn("empty", <<>>, FALSE)

\* if (length <= contextSize) return prompt
TrimReturnsPrompt ==
  /\ trim.status = "running"
  /\ trim.prompt # <<>>
  /\ Fits(TokenCount(trim.prompt), trim.contextSize)
  /\ TrimReturn("fits", trim.prompt, TRUE)

\* if (chunkSize < MinChunkSize) return prompt.slice(0, MinChunkSize)
TrimReturnsFloor ==
  /\ trim.status = "running"
  /\ trim.prompt # <<>>
  /\ ~Fits(TokenCount(trim.prompt), trim.contextSize)
  /\ ChunkSize(trim.prompt, trim.contextSize) < MinChunkSize
  /\ TrimReturn("floor", FloorCut(trim.prompt), TRUE)

\* the recursive call, on the splitter's first chunk or on the hard cut
TrimRecurse(on, prompt) ==
  /\ trim' = [trim EXCEPT !.prompt = prompt, !.recursions = @ \cup {on},
                          !.encoded = TRUE]
  /\ UNCHANGED <<impl, inv, br, report>>

\* return trimPrompt(trimmedPrompt, contextSize)
TrimRecursesOnChunk(trimmedPrompt) ==
  /\ trim.status = "running"
  /\ trim.prompt # <<>>
  /\ ~Fits(TokenCount(trim.prompt), trim.contextSize)
  /\ ChunkSize(trim.prompt, trim.contextSize) >= MinChunkSize
  /\ TextLen(trimmedPrompt) # TextLen(trim.prompt)
  /\ TrimRecurse("chunk", trimmedPrompt)

\* return trimPrompt(prompt.slice(0, chunkSize), contextSize)
TrimRecursesOnHardCut(trimmedPrompt) ==
  /\ trim.status = "running"
  /\ trim.prompt # <<>>
  /\ ~Fits(TokenCount(trim.prompt), trim.contextSize)
  /\ ChunkSize(trim.prompt, trim.contextSize) >= MinChunkSize
  /\ TextLen(trimmedPrompt) = TextLen(trim.prompt)
  /\ TrimRecurse("hardCut", HardCut(trim.prompt, ChunkSize(trim.prompt, trim.contextSize)))

TrimNext ==
  \/ TrimReturnsEmpty
  \/ TrimReturnsPrompt
  \/ TrimReturnsFloor
  \/ \E trimmedPrompt \in FirstChunks(trim.prompt, ChunkSize(trim.prompt, trim.contextSize)) :
       TrimRecursesOnChunk(trimmedPrompt)
  \/ \E trimmedPrompt \in FirstChunks(trim.prompt, ChunkSize(trim.prompt, trim.contextSize)) :
       TrimRecursesOnHardCut(trimmedPrompt)

TrimSpec == TrimInit /\ [][TrimNext]_vars

\* trimPrompt is synchronous: a call that can take a step takes it
FairTrimSpec == TrimSpec /\ WF_vars(TrimNext)

---------------------------------------------------------------------------
\* The final report, writeFinalReport({prompt, learnings, visitedUrls}).
\*
\* A learning is a text of runs, as above.  The report is a string held as the
\* sequence of the pieces it is concatenated from.

\* largest number of visited URLs passed to writeFinalReport
MaxUrls == 3

\* the budget of the learnings block
ReportContextSize == 150000

\* what trimPrompt(prompt, contextSize) may return
RECURSIVE TrimResults(_, _)
TrimResults(prompt, contextSize) ==
  IF prompt = <<>> THEN { <<>> }
  ELSE IF Fits(TokenCount(prompt), contextSize) THEN { prompt }
  ELSE IF ChunkSize(prompt, contextSize) < MinChunkSize THEN { FloorCut(prompt) }
  ELSE UNION { TrimResults(IF TextLen(trimmedPrompt) = TextLen(prompt)
                           THEN HardCut(prompt, ChunkSize(prompt, contextSize))
                           ELSE trimmedPrompt, contextSize) :
                 trimmedPrompt \in FirstChunks(prompt, ChunkSize(prompt, contextSize)) }

\* xs.join(sep), for strings held as sequences
RECURSIVE Join(_, _)
Join(xs, sep) ==
  IF xs = <<>> THEN <<>>
  ELSE IF Len(xs) = 1 THEN xs[1]
  ELSE xs[1] \o sep \o Join(Tail(xs), sep)

\* `<learning>\n${learning}\n</learning>`, the tags ten and eleven letters
WrapLearning(learning) ==
  <<Run("a", 10), Run(Separator, 1)>> \o learning
    \o <<Run(Separator, 1), Run("a", 11)>>

\* learnings.map(..).join('\n')
LearningsBlock(learnings) ==
  Join([i \in 1..Len(learnings) |-> WrapLearning(learnings[i])], <<Run(Separator, 1)>>)

SourcesHeading == "\n\n## Sources\n\n"

\* `- ${url}`
Bullet(url) == <<"- ", url>>

\* `\n\n## Sources\n\n${visitedUrls.map(url => `- ${url}`).join('\n')}`
UrlsSectionOfDistinct(visitedUrls) ==
  <<SourcesHeading>>
    \o Join([i \in 1..Len(Dedup(visitedUrls)) |-> Bullet(Dedup(visitedUrls)[i])], <<"\n">>)
UrlsSection(visitedUrls) ==
  <<SourcesHeading>>
    \o Join([i \in 1..Len(visitedUrls) |-> Bullet(visitedUrls[i])], <<"\n">>)

ReportLearnings == { <<>>, << <<Run("x", 1)>> >>, << <<Run("a", 140)>>, <<Run("x", 1)>> >> }
ReportUrls == {"u1", "u2"}
UrlLists == UNION { [1..n -> ReportUrls] : n \in 0..MaxUrls }
ReportMarkdowns == { <<>>, <<"# Report">> }

\* writeFinalReport has trimmed the learnings block and awaits the synthesizer
ReportCall(learnings, visitedUrls, learningsString) ==
  [ status          |-> "awaiting",
    learnings       |-> learnings,
    visitedUrls     |-> visitedUrls,
    learningsString |-> learningsString,
    reportMarkdown  |-> <<>>,
    result          |-> <<>> ]

ReportInit ==
  /\ impl = "current"
  /\ inv = [x \in {} |-> EmptyResult]
  /\ br = [x \in {} |-> EmptyResult]
  /\ trim = NoCall
  /\ \E learnings \in ReportLearnings, visitedUrls \in UrlLists :
       \E learningsString \in TrimResults(LearningsBlock(learnings), ReportContextSize) :
         report = ReportCall(learnings, visitedUrls, learningsString)

\* generateObject resolves: the Sources section is appended to the report
SynthesizerReturns(reportMarkdown) ==
  /\ report.status = "awaiting"
  /\ report' = [report EXCEPT !.status = "returned",
                              !.reportMarkdown = reportMarkdown,
                              !.result = reportMarkdown \o UrlsSection(report.visitedUrls)]
  /\ UNCHANGED <<impl, inv, br, trim>>

\* generateObject throws: writeFinalReport rejects
SynthesizerFails ==
  /\ report.status = "awaiting"
  /\ report' = [report EXCEPT !.status = "rejected"]
  /\ UNCHANGED <<impl, inv, br, trim>>

ReportNext ==
  \/ \E reportMarkdown \in ReportMarkdowns : SynthesizerReturns(reportMarkdown)
  \/ SynthesizerFails

ReportSpec == ReportInit /\ [][ReportNext]_vars

---------------------------------------------------------------------------
\* Properties.

Range(s) == { s[i] : i \in 1..Len(s) }
NoDuplicates(s) == \A i, j \in 1..Len(s) : s[i] = s[j] => i = j
IsPrefix(s, t) == Len(s) <= Len(t) /\ SubSeq(t, 1, Len(s)) = s
Root == <<>>
Failed(p) == inv[p].status \in {"plannerFailed", "branchRejected"}
Succeeded(x) == br[x].outcome \in {"analysed", "terminal", "recursed", "recursionFailed"}

\* C1 -- Failure isolation.  A branch whose search call failed has fulfilled
\* (never rejected) with exactly the empty result, in its own slot; its failure
\* leaves no sibling waiting with a free limiter slot; and once the invocation
\* has aggregated, every sibling has run and every learning and URL of every
\* sibling's result is in the aggregated result.
FailureIsolation ==
  \A x \in DOMAIN br :
    br[x].outcome = "searchFailed" =>
      LET p == Parent(x) IN
      /\ br[x].pc = "done"
      /\ br[x].result = EmptyResult
      /\ inv[p].results[Index(x)] = EmptyResult
      /\ Queued(br, p) # {} => Cardinality(Active(br, p)) = Limit
      /\ inv[p].status = "done" =>
           \A y \in Branches(br, p) \ {x} :
             /\ br[y].pc = "done"
             /\ br[y].delay >= 0
             /\ Range(br[y].result.learnings) \subseteq Range(inv[p].result.learnings)
             /\ Range(br[y].result.visitedUrls) \subseteq Range(inv[p].result.visitedUrls)

\* C1 witness: an aggregated invocation with a branch whose search failed and a
\* sibling whose learnings and URLs made it into the result.
FailureIsolationWitness ==
  \E x \in DOMAIN br : \E y \in Branches(br, Parent(x)) \ {x} :
    /\ br[x].outcome = "searchFailed"
    /\ inv[Parent(x)].status = "done"
    /\ br[y].result.learnings # <<>>
    /\ br[y].result.visitedUrls # <<>>
    /\ inv[Parent(x)].result = br[y].result

\* the recursion tree has at most depth+1 levels; depth 0 never recurses
LevelsBounded ==
  /\ \A x \in DOMAIN br : Len(x) <= inv[Root].depth + 1
  /\ inv[Root].depth = 0 => DOMAIN inv = {Root}

\* the root call has returned or rejected
RootSettled == inv[Root].status = "done" \/ Failed(Root)

\* C2 -- Termination.  The recursion tree never has more than depth+1 levels, a
\* root call of depth 0 never issues a recursive research call, and the root
\* call eventually returns or rejects (so no branch that holds a limiter slot
\* while it awaits its recursive call blocks that call's branches).
Termination == []LevelsBounded /\ <>RootSettled

\* C2 witness: a root call of the largest depth that returned after a branch
\* at the second level returned from under a branch holding a limiter slot.
TerminationWitness ==
  /\ inv[Root].status = "done"
  /\ inv[Root].depth = MaxDepth
  /\ \E x \in DOMAIN br : Len(x) = 2 /\ br[x].outcome = "terminal"
                          /\ br[Parent(x)].outcome = "recursed"

\* C3 -- Recursion gate.  A branch whose search and analysis succeeded has
\* issued exactly one recursive research call, with breadth ceil(b/2) and depth
\* d-1, when d-1 > 0, and none otherwise, whatever follow-up questions the
\* analyzer returned.
RecursionGate ==
  \A x \in DOMAIN br :
    Succeeded(x) =>
      IF br[x].depth - 1 > 0
      THEN /\ br[x].recursions = 1
           /\ x \in DOMAIN inv
           /\ 2 * inv[x].breadth \in {br[x].breadth, br[x].breadth + 1}
           /\ inv[x].depth = br[x].depth - 1
      ELSE /\ br[x].recursions = 0
           /\ x \notin DOMAIN inv

\* C3 witness: a branch that recursed although the analyzer returned no
\* follow-up question (the next query holds the research goal alone).
RecursionGateWitness ==
  \E x \in DOMAIN br :
    /\ br[x].recursions = 1
    /\ x \in DOMAIN inv
    /\ Len(inv[x].query) = 1

\* C4 -- Breadth decay.  Every research invocation has breadth >= 1, and the
\* breadth of a recursive invocation is ceil(b/2) of the breadth b of the
\* invocation whose branch issued it.
BreadthDecay ==
  \A p \in DOMAIN inv :
    /\ inv[p].breadth >= 1
    /\ p # Root =>
         LET b == inv[Parent(p)].breadth IN
         /\ 2 * inv[p].breadth >= b
         /\ 2 * (inv[p].breadth - 1) < b

\* C4 witness: a recursive call issued from breadth 1, where halving without
\* the ceiling would give 0.
BreadthDecayWitness ==
  \E p \in DOMAIN inv :
    p # Root /\ inv[Parent(p)].breadth = 1 /\ inv[p].breadth = 1

\* C5 -- Dedup.  The result of a research invocation holds no learning and no
\* URL twice, and its learnings (URLs) are exactly those of its branch results.
DedupUnion ==
  \A p \in DOMAIN inv :
    inv[p].status = "done" =>
      /\ NoDuplicates(inv[p].result.learnings)
      /\ NoDuplicates(inv[p].result.visitedUrls)
      /\ Range(inv[p].result.learnings) =
           UNION { Range(br[x].result.learnings) : x \in Branches(br, p) }
      /\ Range(inv[p].result.visitedUrls) =
           UNION { Range(br[x].result.visitedUrls) : x \in Branches(br, p) }

\* C5 witness: an aggregated invocation two of whose branch results share a
\* learning and a URL.
DedupUnionWitness ==
  \E p \in DOMAIN inv : \E x, y \in Branches(br, p) :
    /\ x # y
    /\ inv[p].status = "done"
    /\ Range(br[x].result.learnings) \cap Range(br[y].result.learnings) # {}
    /\ Range(br[x].result.visitedUrls) \cap Range(br[y].result.visitedUrls) # {}

\* C6 as claimed -- what a branch executor returns, and what a research call
\* returns, is never shorter than the learnings / visitedUrls it was given.
ResultNeverSmaller ==
  /\ \A x \in DOMAIN br :
       br[x].pc = "done" =>
         /\ Len(br[x].result.learnings) >= Len(br[x].learnings)
         /\ Len(br[x].result.visitedUrls) >= Len(br[x].visitedUrls)
  /\ \A p \in DOMAIN inv :
       inv[p].status = "done" =>
         /\ Len(inv[p].result.learnings) >= Len(inv[p].learnings)
         /\ Len(inv[p].result.visitedUrls) >= Len(inv[p].visitedUrls)

\* C6 as amended -- on the way down a branch the collections only grow: what a
\* branch passes to its recursive research call extends what the enclosing
\* research call was given, and what a terminal branch whose search and
\* analysis succeeded returns extends what that branch was given.
AccumulationGrows ==
  \A x \in DOMAIN br :
    /\ x \in DOMAIN inv =>
         /\ IsPrefix(inv[Parent(x)].learnings, inv[x].learnings)
         /\ IsPrefix(inv[Parent(x)].visitedUrls, inv[x].visitedUrls)
    /\ br[x].outcome = "terminal" =>
         /\ IsPrefix(br[x].learnings, br[x].result.learnings)
         /\ IsPrefix(br[x].visitedUrls, br[x].result.visitedUrls)

\* C6 witness: a terminal branch at the second level whose result extends a
\* non-empty input.
AccumulationGrowsWitness ==
  \E x \in DOMAIN br :
    /\ br[x].outcome = "terminal"
    /\ br[x].learnings # <<>>
    /\ br[x].visitedUrls # <<>>
    /\ Len(br[x].result.learnings) > Len(br[x].learnings)
    /\ Len(br[x].result.visitedUrls) > Len(br[x].visitedUrls)

\* C7 -- Only a failure of the root query-planning call makes the root call
\* fail: the root rejects only when its own planner failed, and a branch whose
\* search, analysis or recursive research call (its planner included) failed
\* has fulfilled with the empty result.
OnlyRootPlannerFatal ==
  /\ Failed(Root) => inv[Root].status = "plannerFailed"
  /\ \A x \in DOMAIN br :
       br[x].outcome \in {"searchFailed", "analysisFailed", "recursionFailed"} =>
         br[x].pc = "done" /\ br[x].result = EmptyResult

\* C8 as claimed -- at every instant at most N branch executions are active.
ActiveBranchesBounded ==
  Cardinality({ x \in DOMAIN br : br[x].pc \in ActivePcs }) <= Limit

\* C8 as amended -- at every instant at most N branch executions of any one
\* research invocation are active.
ActivePerInvocationBounded ==
  \A p \in DOMAIN inv : Cardinality(Active(br, p)) <= Limit

\* C8 witness: an invocation with N active branches and another one waiting in
\* the limiter's queue.
ActivePerInvocationWitness ==
  \E p \in DOMAIN inv :
    Cardinality(Active(br, p)) = Limit /\ Queued(br, p) # {}

\* C9 -- Result order.  The result of the branch for candidate query i is in
\* slot i of the collected results, and no slot beyond the number of queries is
\* ever filled.
ResultOrder ==
  \A p \in DOMAIN inv :
    /\ DOMAIN inv[p].results \subseteq 1..inv[p].n
    /\ \A x \in Branches(br, p) :
         br[x].pc = "done" =>
           /\ Index(x) \in DOMAIN inv[p].results
           /\ inv[p].results[Index(x)] = br[x].result

\* C9 witness: the branch of query 2 has completed with a result while the
\* branch of query 1 is still running.
ResultOrderWitness ==
  \E p \in DOMAIN inv :
    /\ Append(p, 2) \in DOMAIN br
    /\ br[Append(p, 2)].pc = "done"
    /\ br[Append(p, 2)].result # EmptyResult
    /\ br[Append(p, 1)].pc \in ActivePcs

\* C10 -- Rate limiting.  Every search request was issued after its branch had
\* slept the rate-limit delay, and at least the delay after the previous search
\* request.
RateLimited ==
  \A x \in DOMAIN br :
    br[x].delay # -1 =>
      /\ br[x].delay >= RATE_LIMIT_MS
      /\ br[x].gap >= RATE_LIMIT_MS

\* C11 -- Same snapshot.  Every branch executor holds exactly the learnings and
\* visitedUrls its research invocation was given, however many siblings have
\* completed, and what it passes on or returns is that snapshot followed by
\* the learnings of one analyzer response and the URLs of one search response:
\* nothing of a sibling's result is in it.
SameSnapshot ==
  \A x \in DOMAIN br :
    LET p == Parent(x)
        out == IF x \in DOMAIN inv
               THEN [learnings |-> inv[x].learnings, visitedUrls |-> inv[x].visitedUrls]
               ELSE br[x].result
    IN /\ br[x].learnings = inv[p].learnings
       /\ br[x].visitedUrls = inv[p].visitedUrls
       /\ (x \in DOMAIN inv \/ br[x].outcome = "terminal") =>
            /\ \E a \in AnalyzerResponses :
                 out.learnings = inv[p].learnings \o a.learnings
            /\ \E r \in SearchResponses :
                 out.visitedUrls = inv[p].visitedUrls \o extractUrlsFromResult(r)

\* C11 witness: under limit 1 the second branch of an invocation started after
\* the first had completed with learnings and URLs, and returned its own.
SameSnapshotWitness ==
  \E p \in DOMAIN inv :
    /\ impl = "current"
    /\ Append(p, 2) \in DOMAIN br
    /\ br[Append(p, 1)].outcome = "terminal"
    /\ br[Append(p, 2)].outcome = "terminal"
    /\ br[Append(p, 1)].result.learnings # br[Append(p, 2)].result.learnings
    /\ br[Append(p, 1)].result.visitedUrls # br[Append(p, 2)].result.visitedUrls

\* C12 -- No in-place mutation.  No step changes the learnings or visitedUrls a
\* research invocation or a branch executor was given, whether the step is a
\* success or a failure and at whatever level.
NoInPlaceMutation ==
  [][ /\ \A p \in DOMAIN inv :
           /\ inv'[p].learnings = inv[p].learnings
           /\ inv'[p].visitedUrls = inv[p].visitedUrls
      /\ \A x \in DOMAIN br :
           /\ br'[x].learnings = br[x].learnings
           /\ br'[x].visitedUrls = br[x].visitedUrls ]_vars

\* C12 witness: a branch at the second level, given non-empty collections,
\* failed in its analysis and returned empty, under a branch that had succeeded
\* and accumulated; the invocation between them still holds what it was given.
NoInPlaceMutationWitness ==
  \E x \in DOMAIN br :
    /\ Len(x) = 2
    /\ br[x].outcome = "analysisFailed"
    /\ br[x].learnings # <<>>
    /\ br[x].visitedUrls # <<>>
    /\ br[x].learnings = inv[Parent(x)].learnings
    /\ br[Parent(x)].outcome = "recursed"
    /\ br[Parent(x)].learnings = <<>>

\* how often event e is in the log of a branch
Count(steps, e) == Cardinality({ i \in 1..Len(steps) : steps[i] = e })

\* C13 -- No retry, one executor per query.  Once the planner has answered,
\* each candidate query kept has exactly one branch executor; a branch calls
\* the search provider once, the analyzer at most once, and a branch whose
\* search or analysis failed is done and made no call after the one that
\* failed.
NoRetry ==
  /\ \A p \in DOMAIN inv :
       inv[p].status # "planning" =>
         /\ Cardinality(Branches(br, p)) = inv[p].n
         /\ \A i \in 1..inv[p].n :
              Cardinality({ x \in Branches(br, p) :
                              br[x].serpQuery = PlannerResponse(inv[p].n)[i] }) = 1
  /\ \A x \in DOMAIN br :
       /\ Count(br[x].steps, "search") <= 1
       /\ Count(br[x].steps, "analyze") <= 1
       /\ br[x].pc \notin {"queued", "sleeping"} => Count(br[x].steps, "search") = 1
       /\ br[x].outcome = "searchFailed" =>
            /\ br[x].pc = "done"
            /\ br[x].steps[Len(br[x].steps)] = "search"
       /\ br[x].outcome = "analysisFailed" =>
            /\ br[x].pc = "done"
            /\ br[x].steps[Len(br[x].steps)] = "analyze"

\* C13 witness: an invocation with two candidate queries has returned; the
\* branch of one failed in its search, the branch of the other in its analysis.
NoRetryWitness ==
  \E p \in DOMAIN inv : \E x, y \in Branches(br, p) :
    /\ inv[p].status = "done"
    /\ inv[p].n = 2
    /\ br[x].outcome = "searchFailed"
    /\ br[y].outcome = "analysisFailed"

\* C14 -- Trim leaves fitting text unchanged.  A call on a text whose token
\* count is within the budget never recurses and returns the text itself, and a
\* call on the empty text returns the empty text without encoding anything.
TrimLeavesFitting ==
  /\ TokenCount(trim.text) <= trim.contextSize =>
       /\ trim.recursions = {}
       /\ trim.status = "returned" => trim.result = trim.text
  /\ trim.text = <<>> =>
       /\ ~trim.encoded
       /\ trim.status = "returned" => trim.result = <<>>

\* C14 witness: a text of 300 characters whose token count is exactly the
\* budget was returned as it is.
TrimLeavesFittingWitness ==
  /\ trim.status = "returned"
  /\ TextLen(trim.text) >= 300
  /\ TokenCount(trim.text) = trim.contextSize
  /\ trim.result = trim.text

\* C15 -- Trim terminates.  Every recursive call is on a text strictly shorter
\* than the text of the call that makes it, and the call returns.
TrimTerminates ==
  /\ [][trim'.status = "running" => TextLen(trim'.prompt) < TextLen(trim.prompt)]_vars
  /\ <>(trim.status = "returned")

\* C15 witness: a call that returned after it had recursed on a first chunk
\* and on a hard cut.
TrimTerminatesWitness ==
  /\ trim.status = "returned"
  /\ trim.recursions = {"chunk", "hardCut"}

\* C16 as claimed -- for a budget >= 1 the result has at least 140 characters,
\* unless the text has fewer, and then the result is the text.
TrimFloor ==
  (trim.status = "returned" /\ trim.contextSize >= 1) =>
    IF TextLen(trim.text) < MinChunkSize
    THEN trim.result = trim.text
    ELSE TextLen(trim.result) >= MinChunkSize

\* C16 as amended -- a text of fewer than 140 characters is returned as it is;
\* a call whose targetChars is below 140 returns the first 140 characters of
\* its own input; and the result of a text of 140 characters or more is shorter
\* than 140 characters only after a recursion on a splitter's first chunk.
TrimFloorOfTarget ==
  trim.status = "returned" =>
    /\ TextLen(trim.text) < MinChunkSize => trim.result = trim.text
    /\ trim.via = "floor" =>
         /\ trim.result = SliceText(trim.prompt, MinChunkSize)
         /\ TextLen(trim.prompt) >= MinChunkSize => TextLen(trim.result) = MinChunkSize
    /\ (TextLen(trim.text) >= MinChunkSize /\ TextLen(trim.result) < MinChunkSize) =>
         "chunk" \in trim.recursions

\* C16 witness: a text of 139 characters over the budget came back whole from
\* the floor.
TrimFloorOfTargetWitness ==
  /\ trim.status = "returned"
  /\ trim.via = "floor"
  /\ TextLen(trim.text) = MinChunkSize - 1
  /\ trim.result = trim.text

\* C17 as claimed -- the token count of the result fits the budget.
TrimFits ==
  trim.status = "returned" => TokenCount(trim.result) <= trim.contextSize

\* C17 as amended -- the token count of the result fits the budget, unless the
\* result is the floor's: the first 140 characters of the input of a call whose
\* targetChars was below 140.
TrimFitsOrFloor ==
  trim.status = "returned" =>
    \/ TokenCount(trim.result) <= trim.contextSize
    \/ /\ trim.via = "floor"
       /\ trim.result = SliceText(trim.prompt, MinChunkSize)
       /\ ChunkSize(trim.prompt, trim.contextSize) < MinChunkSize

\* C17 witness: a text over the budget was cut down, in more than one kind of
\* recursion, to a text of 140 characters or more that fits a budget of 75.
TrimFitsOrFloorWitness ==
  /\ trim.status = "returned"
  /\ trim.via = "fits"
  /\ trim.recursions = {"chunk", "hardCut"}
  /\ TokenCount(trim.result) = trim.contextSize
  /\ TextLen(trim.result) >= MinChunkSize

\* C18 -- Timeouts are distinguished.  A branch that failed because its search
\* or its analysis call exceeded its deadline has reported a timeout, a branch
\* that failed for any other reason has reported a generic error, and either
\* has returned the empty result.
TimeoutsDistinguished ==
  \A x \in DOMAIN br :
    br[x].cause # "none" =>
      /\ br[x].pc = "done"
      /\ br[x].result = EmptyResult
      /\ br[x].cause = "deadline" => br[x].report = "timeout"
      /\ br[x].cause = "other" => br[x].report = "error"

\* C19 -- Final report sources.  What writeFinalReport returns is the
\* synthesizer's report, then the Sources heading, then one line "- url" per
\* visited URL of the input, in the input's order and as often as the URL
\* occurs, the lines separated by line breaks; with no URL the heading is
\* still there and nothing follows it.
FinalReportSources ==
  report.status = "returned" =>
    LET n == Len(report.visitedUrls)
        m == Len(report.reportMarkdown)
        rest == SubSeq(report.result, m + 2, Len(report.result))
    IN /\ IsPrefix(report.reportMarkdown, report.result)
       /\ Len(report.result) > m
       /\ report.result[m + 1] = SourcesHeading
       /\ Len(rest) = IF n = 0 THEN 0 ELSE 3 * n - 1
       /\ \A i \in 1..n :
            /\ rest[3 * i - 2] = "- "
            /\ rest[3 * i - 1] = report.visitedUrls[i]
            /\ i < n => rest[3 * i] = "\n"

\* C19 witness: a report returned for three URLs of which the first and the
\* last are the same.
FinalReportSourcesWitness ==
  /\ report.status = "returned"
  /\ report.reportMarkdown # <<>>
  /\ Len(report.visitedUrls) = 3
  /\ report.visitedUrls[1] = report.visitedUrls[3]
  /\ report.visitedUrls[1] # report.visitedUrls[2]

\* C20 -- Branch step order.  The events of a branch are, in this order, the
\* rate-limit delay, the search request, the analyzer call and the recursive
\* research call, each at most once and none without the ones before it; a
\* branch whose search failed never called the analyzer, and a branch whose
\* search or analysis failed never issued a recursive research call.
BranchStepOrder ==
  \A x \in DOMAIN br :
    /\ IsPrefix(br[x].steps, <<"delay", "search", "analyze", "recurse">>)
    /\ br[x].outcome = "searchFailed" =>
         /\ Count(br[x].steps, "analyze") = 0
         /\ x \notin DOMAIN inv
    /\ br[x].outcome = "analysisFailed" =>
         /\ Count(br[x].steps, "recurse") = 0
         /\ x \notin DOMAIN inv

\* C21 -- Planner truncation.  Once the planner has answered, the invocation
\* has at most `breadth` branch executors, branch i runs the planner's i-th
\* query, and until a branch settles their number is min(k, breadth) for the k
\* candidate queries the planner returned.
PlannerTruncation ==
  \A p \in DOMAIN inv :
    inv[p].status # "planning" =>
      /\ inv[p].n <= inv[p].breadth
      /\ Branches(br, p) = { Append(p, i) : i \in 1..inv[p].n }
      /\ \A i \in 1..inv[p].n :
           br[Append(p, i)].serpQuery = PlannerResponse(inv[p].breadth + 1)[i]
      /\ (\A x \in Branches(br, p) : br[x].pc \notin {"done", "rejected"}) =>
           inv[p].n = Min(inv[p].planned, inv[p].breadth)

\* C21 witness: the planner returned three queries to a root call of breadth
\* two, which started two branches.
PlannerTruncationWitness ==
  /\ inv[Root].breadth = 2
  /\ inv[Root].planned = 3
  /\ inv[Root].n = 2
  /\ Append(Root, 2) \in DOMAIN br

\* what branch x added to the learnings (URLs) it was given, in what it passed
\* to its recursive call or returned
FoundLearnings(x) ==
  LET out == IF x \in DOMAIN inv THEN inv[x].learnings ELSE br[x].result.learnings
  IN SubSeq(out, Len(br[x].learnings) + 1, Len(out))

FoundUrls(x) ==
  LET out == IF x \in DOMAIN inv THEN inv[x].visitedUrls ELSE br[x].result.visitedUrls
  IN SubSeq(out, Len(br[x].visitedUrls) + 1, Len(out))

\* the input of the root call followed by what each branch on the path from
\* the root to x added
RECURSIVE PathLearnings(_)
PathLearnings(x) ==
  IF x = Root THEN inv[Root].learnings
  ELSE PathLearnings(Parent(x)) \o FoundLearnings(x)

RECURSIVE PathUrls(_)
PathUrls(x) ==
  IF x = Root THEN inv[Root].visitedUrls
  ELSE PathUrls(Parent(x)) \o FoundUrls(x)

\* the path accumulations of the terminal branches that succeeded among the
\* descendants of the first i branches of invocation p, in candidate-query
\* order
RECURSIVE TerminalLearnings(_, _)
TerminalLearnings(p, i) ==
  IF i = 0 THEN <<>>
  ELSE LET x == Append(p, i) IN
       TerminalLearnings(p, i - 1) \o
         (IF br[x].outcome = "terminal" THEN PathLearnings(x)
          ELSE IF x \in DOMAIN inv THEN TerminalLearnings(x, inv[x].n)
          ELSE <<>>)

RECURSIVE TerminalUrls(_, _)
TerminalUrls(p, i) ==
  IF i = 0 THEN <<>>
  ELSE LET x == Append(p, i) IN
       TerminalUrls(p, i - 1) \o
         (IF br[x].outcome = "terminal" THEN PathUrls(x)
          ELSE IF x \in DOMAIN inv THEN TerminalUrls(x, inv[x].n)
          ELSE <<>>)

\* C22 -- Root result.  When the root call has returned, its learnings (URLs)
\* are the path accumulations of the terminal branches whose search and
\* analysis succeeded, concatenated in candidate-query order and deduplicated:
\* nothing else is in the result, so what was found on a path that ended in
\* failures or in a planner without queries is not contributed.
RootResult ==
  inv[Root].status = "done" =>
    /\ inv[Root].result.learnings = Dedup(TerminalLearnings(Root, inv[Root].n))
    /\ inv[Root].result.visitedUrls = Dedup(TerminalUrls(Root, inv[Root].n))
    /\ \A x \in DOMAIN br : br[x].outcome = "terminal" <=>
                              Succeeded(x) /\ br[x].depth - 1 <= 0

\* C22 witness: the root returned what the one terminal branch under its first
\* branch accumulated; its second branch had found "b" and "u2" and recursed
\* into a call whose planner returned no query, and neither is in the result.
RootResultWitness ==
  /\ inv[Root].status = "done"
  /\ {<<1>>, <<1, 1>>, <<2>>} \subseteq DOMAIN br
  /\ br[<<1>>].outcome = "recursed"
  /\ br[<<1, 1>>].outcome = "terminal"
  /\ br[<<2>>].outcome = "recursed"
  /\ inv[<<2>>].n = 0
  /\ inv[<<2>>].learnings = <<"b">>
  /\ inv[<<2>>].visitedUrls = <<"u2">>
  /\ inv[Root].result = [learnings |-> <<"a">>, visitedUrls |-> <<"u1">>]

\* the external calls and rate-limit delays in progress: planner calls, and
\* branches in their delay, their search or their analysis
PlannersInProgress == { p \in DOMAIN inv : inv[p].status = "planning" }
BranchesInProgress ==
  { x \in DOMAIN br : br[x].pc \in {"sleeping", "searching", "analyzing"} }

\* branch x has settled, and so has everything below it
Finished(x) ==
  /\ br[x].pc \in {"done", "rejected"}
  /\ \A z \in DOMAIN br :
       (Len(z) > Len(x) /\ SubSeq(z, 1, Len(x)) = x) => br[z].pc \in {"done", "rejected"}
  /\ \A q \in DOMAIN inv :
       (Len(q) >= Len(x) /\ SubSeq(q, 1, Len(x)) = x) =>
         inv[q].status \notin {"planning", "running"}

\* C23 -- Sequential traversal.  Under ConcurrencyLimit = 1 at most one
\* planner call, search, analysis or rate-limit delay is in progress in the
\* whole tree, and a branch has started only when every earlier sibling and
\* all of its descendants have finished.
SequentialTraversal ==
  Limit = 1 =>
    /\ Cardinality(PlannersInProgress) + Cardinality(BranchesInProgress) <= 1
    /\ \A x \in DOMAIN br : \A y \in DOMAIN br :
         ( /\ Len(x) = Len(y)
           /\ Parent(x) = Parent(y)
           /\ Index(x) < Index(y)
           /\ br[y].pc # "queued" ) => Finished(x)

\* C23 witness: under limit 1 the second branch of the root is in its delay
\* after the first branch recursed and its descendant returned.
SequentialTraversalWitness ==
  /\ Limit = 1
  /\ {<<1>>, <<1, 1>>, <<2>>} \subseteq DOMAIN br
  /\ br[<<1>>].outcome = "recursed"
  /\ br[<<1, 1>>].outcome = "terminal"
  /\ br[<<2>>].pc = "sleeping"

\* ceil(b / m)
CeilDiv(b, m) == (b + m - 1) \div m

RECURSIVE Pow2(_)
Pow2(i) == IF i = 0 THEN 1 ELSE 2 * Pow2(i - 1)

\* the product of ceil(b0 / 2^i) for i = 0..k-1
RECURSIVE BreadthProduct(_, _)
BreadthProduct(b0, k) ==
  IF k = 0 THEN 1 ELSE BreadthProduct(b0, k - 1) * CeilDiv(b0, Pow2(k - 1))

\* the branch executions at recursion level k
BranchesAtLevel(k) == { x \in DOMAIN br : Len(x) = k }

SwapDepth(s) ==
  [ inv |-> [p \in DOMAIN s.inv |->
               IF p = Root THEN [s.inv[p] EXCEPT !.depth = 1 - @] ELSE s.inv[p]],
    br  |-> [x \in DOMAIN s.br |->
               IF Len(x) = 1 THEN [s.br[x] EXCEPT !.depth = 1 - @] ELSE s.br[x]] ]

SwapAll(S) == { SwapDepth(s) : s \in S }

\* C25 -- Depth 0 is depth 1.  A root call of depth 0 or 1 never issues a
\* recursive research call, and from every state it reaches, each response,
\* failure or timer leads the call of the other depth, in the same state but
\* for its depth, to the same state but for its depth: the two issue the same
\* calls and hold the same results throughout.
DepthZeroIsDepthOne ==
  inv[Root].depth \in {0, 1} =>
    LET s == [inv |-> inv, br |-> br]
        t == SwapDepth(s)
    IN /\ DOMAIN inv = {Root}
       /\ \A x \in DOMAIN br : Len(x) = 1 /\ Count(br[x].steps, "recurse") = 0
       /\ \A p \in DOMAIN inv :
            /\ \A k \in 0..(inv[p].breadth + 1) :
                 AfterPlannerReturns(t.inv, t.br, p, k)
                   = SwapAll(AfterPlannerReturns(inv, br, p, k))
            /\ \A error \in PlannerErrors :
                 AfterPlannerFails(t.inv, t.br, p, error)
                   = SwapAll(AfterPlannerFails(inv, br, p, error))
       /\ AfterTick(t.inv, t.br) = SwapAll(AfterTick(inv, br))
       /\ \A x \in DOMAIN br :
            /\ AfterSleepDone(t.inv, t.br, x) = SwapAll(AfterSleepDone(inv, br, x))
            /\ \A result \in SearchResponses :
                 AfterSearchReturns(t.inv, t.br, x, result)
                   = SwapAll(AfterSearchReturns(inv, br, x, result))
            /\ \A newLearnings \in AnalyzerResponses :
                 AfterAnalyzerReturns(t.inv, t.br, x, newLearnings)
                   = SwapAll(AfterAnalyzerReturns(inv, br, x, newLearnings))
            /\ \A error \in SearchErrors :
                 AfterSearchFails(t.inv, t.br, x, error)
                   = SwapAll(AfterSearchFails(inv, br, x, error))
            /\ \A error \in AnalyzerErrors :
                 AfterAnalyzerFails(t.inv, t.br, x, error)
                   = SwapAll(AfterAnalyzerFails(inv, br, x, error))

\* C25 witness: a root call of depth 0 returned what its two branches found,
\* one of them on an analyzer response with a follow-up question.
DepthZeroIsDepthOneWitness ==
  /\ inv[Root].depth = 0
  /\ inv[Root].status = "done"
  /\ {<<1>>, <<2>>} \subseteq DOMAIN br
  /\ br[<<1>>].outcome = "terminal"
  /\ br[<<2>>].outcome = "terminal"
  /\ br[<<2>>].result.learnings = <<"b">>
  /\ inv[Root].result.learnings = <<"a", "b">>

\* C26 -- Trim is idempotent.  Trimming the result of a call again, to the
\* same budget, returns that result, whichever first chunk the splitter hands
\* back.
TrimIdempotent ==
  trim.status = "returned" =>
    TrimResults(trim.result, trim.contextSize) = { trim.result }

\* C26 witness: a call that recursed returned, from the floor, 140 characters
\* that exceed the budget; trimming them again takes the floor once more.
TrimIdempotentWitness ==
  /\ trim.status = "returned"
  /\ trim.via = "floor"
  /\ trim.recursions # {}
  /\ TextLen(trim.result) = MinChunkSize
  /\ TokenCount(trim.result) > trim.contextSize
  /\ ChunkSize(trim.result, trim.contextSize) < MinChunkSize

\* C27 -- Shape of the result.  The result fits the budget, or it has at most
\* 140 characters and is the first 140 characters of the text the last call of
\* the recursion was given; a call returns in no other way.
TrimResultShape ==
  trim.status = "returned" =>
    /\ \/ TokenCount(trim.result) <= trim.contextSize
       \/ /\ TextLen(trim.result) <= MinChunkSize
          /\ trim.result = SliceText(trim.prompt, MinChunkSize)
    /\ trim.via \in {"empty", "fits", "floor"}
    /\ trim.via \in {"empty", "fits"} => TokenCount(trim.result) <= trim.contextSize

\* C27 witness: after a hard cut the call returned, from the floor, the first
\* 140 characters of a longer text, and they exceed the budget.
TrimResultShapeWitness ==
  /\ trim.status = "returned"
  /\ trim.via = "floor"
  /\ trim.recursions = {"hardCut"}
  /\ TokenCount(trim.result) > trim.contextSize
  /\ TextLen(trim.result) = MinChunkSize
  /\ TextLen(trim.prompt) > MinChunkSize

====
